---------------------------- MODULE Spec2Model ----------------------------
(***************************************************************************)
(* The alignment engine of ankify: src/lib/alignments.ts, the routes that  *)
(* start, regenerate and cancel an alignment run, and the tables they      *)
(* write (card_alignments, coverage_gaps, card_concepts, processing_jobs). *)
(*                                                                         *)
(* src/lib/alignments.ts holds two revisions of the engine:                *)
(*   "batched"  lines 441-939: processSlideAlignment writes its rows as it *)
(*              goes; the orchestrator runs the slides in batches of       *)
(*              PARALLEL_BATCH_SIZE and polls the job row between batches; *)
(*   "collect"  lines 32-438: every slide runs at once, results are kept   *)
(*              in memory and flushed by one bulk step at the end.         *)
(* The variable revision says which one a behaviour runs: Spec is the      *)
(* batched engine, SpecCollect the collect-then-flush engine.              *)
(*                                                                         *)
(* One lecture and one deck are modelled.  Every step is one request to    *)
(* the store or to the reasoning service, together with the local          *)
(* computation that follows it up to the next request.                     *)
(***************************************************************************)
EXTENDS Integers, Sequences, FiniteSets, Bags, TLC

\* ------------------------------------------------------------------ bounds
NumSlides == 4          \* slides of the lecture
MaxRuns == 2            \* runs started for the lecture (start / regenerate)
MaxCancels == 1         \* cancel requests
MaxLecture == 10        \* slides of the lecture of one progress computation

\* ------------------------------------------------------- program constants
PARALLEL_BATCH_SIZE == 3
maxRetries == 3
BACKOFF_MS == 1000
GAP_MIN_DIRECT == 0
GAP_MAX_DIRECT == 3
PROGRESS_START == 5
PROGRESS_SPAN == 90
PROGRESS_COLLECTED == 80
PROGRESS_DONE == 100
rpcMaxRetries == 3
REAL_DIGITS == 24
MAX_CARDS_PER_AI_CALL == 30
DOUBLE_DIGITS == 53
SPAN_DIGITS == 7
LIMB == 16
RELEVANCE_FLOOR == 30
SCORE_SCALE == 100

Slides == 1..NumSlides
Cards == {"c1", "c2"}

\* The cards of a deck that has more cards than one classifier call is sent.
Fillers ==
  << "k02", "k03", "k04", "k05", "k06", "k07", "k08", "k09", "k10", "k11", "k12",
     "k13", "k14", "k15", "k16", "k17", "k18", "k19", "k20", "k21", "k22", "k23",
     "k24", "k25", "k26", "k27", "k28", "k29", "k30" >>

AlignmentTypes == {"directly_aligned", "deeper_than_lecture", "too_shallow", "not_aligned"}
GapKinds == {"search_failed", "no_candidates", "no_cards_in_deck", "rate_limited",
             "ai_failed", "no_relevant", "analysis"}
Terminal == {"completed", "failed"}

\* ------------------------------------------------------------------ inputs
Match(c, t, r) == [card |-> c, type |-> t, score |-> r]

\* What the reasoning service may answer for one slide: parsed.matches.
Responses ==
  { << >>,
    << Match("c1", "directly_aligned", 90) >>,
    << Match("c1", "directly_aligned", 90), Match("c2", "too_shallow", 40) >>,
    << Match("c1", "directly_aligned", 90), Match("c1", "deeper_than_lecture", 60) >>,
    << Match("c2", "not_aligned", 30) >> }

\* How a call of matchCardsToSlide can fail, by the fields the engine inspects:
\* code: code or type is insufficient_quota; s429: status is 429;
\* msg: the message contains the word quota.
ClassifyError(code, s429, msg) == [code |-> code, s429 |-> s429, msg |-> msg]

ClassifyErrors ==
  { ClassifyError(TRUE, TRUE, TRUE),      \* billing quota exhausted
    ClassifyError(FALSE, TRUE, FALSE),    \* rate limited
    ClassifyError(FALSE, TRUE, TRUE),     \* rate limited, message mentions quota
    ClassifyError(FALSE, FALSE, FALSE),   \* anything else (malformed response, ...)
    ClassifyError(FALSE, FALSE, TRUE) }   \* anything else, message mentions quota

\* What a call of matchCardsToSlide ends with: its matches, or the error thrown.
Ok(r) == [ok |-> TRUE, matches |-> r, err |-> ClassifyError(FALSE, FALSE, FALSE)]

Failed(e) == [ok |-> FALSE, matches |-> << >>, err |-> e]

\* A match the service scored below the floor its prompt names.
LowScore == << Match("c1", "too_shallow", 20) >>

\* The content of a completion of the reasoning service: empty, text that is
\* not JSON, a JSON object without a matches list, or one with the list.
Completion(kind, matches) == [kind |-> kind, matches |-> matches]

Completions ==
  { Completion("empty", << >>), Completion("invalid", << >>), Completion("no_list", << >>) }
    \cup { Completion("list", r) : r \in Responses \cup {LowScore} }

\* content || '{}', JSON.parse (it throws on text that is not JSON), then
\* parsed.matches || [].
matchCardsToSlide(content) ==
  LET text == IF content.kind = "empty" THEN Completion("no_list", << >>) ELSE content
  IN IF text.kind = "invalid" THEN Failed(ClassifyError(FALSE, FALSE, FALSE))
     ELSE IF text.kind = "list" THEN Ok(text.matches)
     ELSE Ok(<< >>)

ClassifyOutcomes == {Ok(r) : r \in Responses} \cup {Failed(e) : e \in ClassifyErrors}

\* One attempt of the find_candidate_cards rpc.
RpcOutcomes == {"timeout", "error", "rows"}

\* What the count of the deck's raw_cards rows ends with: the count, or an
\* error.
CountOutcomes == {"count", "error"}

\* What analyzeGap ends with: a gap text, null, or an error thrown.
GapOutcomes == {"gap", "null", "error"}

OneDirect == << Match("c1", "directly_aligned", 90) >>

TwoCards == << Match("c1", "directly_aligned", 90), Match("c2", "too_shallow", 40) >>

\* An answer that names one card three times, each time directly aligned.
ThreeDirect ==
  << Match("c1", "directly_aligned", 90), Match("c1", "directly_aligned", 80),
     Match("c1", "directly_aligned", 70) >>

\* A card id that no raw card of the deck has.
Stranger == "c9"

WithStranger ==
  << Match("c1", "directly_aligned", 90), Match(Stranger, "directly_aligned", 80) >>

\* What find_candidate_cards returns for a slide of the crowded deck, best
\* first: c1, the fillers, and c2 in place MAX_CARDS_PER_AI_CALL + 1.
Crowded == << "c1" >> \o Fillers \o << "c2" >>

\* The environments of a behaviour.  Each fixes what the collaborators may
\* answer during it, whether cancel requests arrive, and whether an earlier
\* run of the lecture may have left its rows in the store:
\*   retrieval   every outcome of the rpc and of the count of the deck's
\*               cards, plain classifier answers;
\*   classifier  every failure of the classifier that is not retried, plain
\*               answers otherwise;
\*   throttled   the classifier answers plainly, is rate limited or is out of
\*               quota; the lecture is one slide shorter;
\*   matches     the classifier answers about two candidates other than the
\*               plain one, and the gap analysis answers a gap or throws (in
\*               the other environments it answers null);
\*   strays      classifier answers that name a card it was not sent, a card
\*               scored below the floor of its prompt, or one card three
\*               times;
\*   cancel      plain answers, with cancel requests;
\*   overlap     plain answers; the lecture is started again while a run of it
\*               is under way;
\*   unread      the read of the lecture's slide concepts gives no row;
\*   rerun       plain answers; the lecture is run again after a run ended,
\*               and the collaborators answer each slide as they did before;
\*   scenario    a lecture of three slides: the first gets two matches (one
\*               directly aligned at 90, one too shallow at 40), the second
\*               retrieves no candidate, the third gets no match; the gap
\*               analysis answers as it likes;
\*   refusing    plain answers; the store may refuse a bulk insert of the
\*               flush (in the other environments it accepts every insert
\*               that keeps its constraints);
\*   crowded     a lecture of one slide and a deck of 31 cards, all of them
\*               candidates of the slide; the classifier names the first
\*               and the last of them;
\*   shared      plain answers for a lecture of one slide; a run of another
\*               lecture against the same deck flushes its results at any
\*               time.
ThrottledEnvironment ==
  [name |-> "throttled", rpc |-> {"rows"}, rows |-> {<< "c1" >>},
   classify |-> {Ok(OneDirect), Failed(ClassifyError(FALSE, TRUE, FALSE)),
                 Failed(ClassifyError(TRUE, TRUE, TRUE))},
   gap |-> {"null"}, cancel |-> FALSE, earlier |-> {FALSE}, reruns |-> FALSE,
   count |-> {"count"}, overlap |-> FALSE, slides |-> NumSlides - 1,
   flush |-> {"ok"}]

Environments ==
  { ThrottledEnvironment,
    [name |-> "retrieval", rpc |-> RpcOutcomes, rows |-> {<< >>, << "c1" >>},
     classify |-> {Ok(<< >>), Ok(OneDirect)},
     gap |-> {"null"}, cancel |-> FALSE, earlier |-> {FALSE}, reruns |-> FALSE,
     count |-> CountOutcomes, overlap |-> FALSE, slides |-> NumSlides,
   flush |-> {"ok"}],
    [name |-> "classifier", rpc |-> {"rows"}, rows |-> {<< "c1" >>},
     classify |-> {Ok(OneDirect)} \cup
                  {o \in ClassifyOutcomes :
                     ~o.ok /\ o.err # ClassifyError(FALSE, TRUE, FALSE)},
     gap |-> {"null"}, cancel |-> FALSE, earlier |-> {FALSE}, reruns |-> FALSE,
     count |-> {"count"}, overlap |-> FALSE, slides |-> NumSlides,
   flush |-> {"ok"}],
    [name |-> "matches", rpc |-> {"rows"}, rows |-> {<< "c1", "c2" >>},
     classify |-> {o \in ClassifyOutcomes : o.ok /\ o.matches # OneDirect},
     gap |-> {"gap", "error"}, cancel |-> FALSE, earlier |-> {FALSE}, reruns |-> FALSE,
     count |-> {"count"}, overlap |-> FALSE, slides |-> NumSlides,
   flush |-> {"ok"}],
    [name |-> "strays", rpc |-> {"rows"}, rows |-> {<< "c1" >>},
     classify |-> {Ok(OneDirect), Ok(TwoCards), Ok(<< Match("c2", "not_aligned", 30) >>),
                   Ok(WithStranger), Ok(LowScore), Ok(ThreeDirect)},
     gap |-> {"null"}, cancel |-> FALSE, earlier |-> {FALSE}, reruns |-> FALSE,
     count |-> {"count"}, overlap |-> FALSE, slides |-> NumSlides,
   flush |-> {"ok"}],
    [name |-> "cancel", rpc |-> {"rows"}, rows |-> {<< "c1" >>},
     classify |-> {Ok(<< >>), Ok(OneDirect)},
     gap |-> {"null"}, cancel |-> TRUE, earlier |-> BOOLEAN, reruns |-> FALSE,
     count |-> {"count"}, overlap |-> FALSE, slides |-> NumSlides,
   flush |-> {"ok"}],
    [name |-> "overlap", rpc |-> {"rows"}, rows |-> {<< "c1" >>},
     classify |-> {Ok(OneDirect)},
     gap |-> {"null"}, cancel |-> FALSE, earlier |-> {FALSE}, reruns |-> FALSE,
     count |-> {"count"}, overlap |-> TRUE, slides |-> NumSlides,
   flush |-> {"ok"}],
    [name |-> "crowded", rpc |-> {"rows"}, rows |-> {Crowded},
     classify |-> {Ok(TwoCards)},
     gap |-> {"null"}, cancel |-> FALSE, earlier |-> {FALSE}, reruns |-> FALSE,
     count |-> {"count"}, overlap |-> FALSE, slides |-> 1,
     flush |-> {"ok"}],
    [name |-> "unread", rpc |-> {"rows"}, rows |-> {<< "c1" >>},
     classify |-> {Ok(OneDirect)},
     gap |-> {"null"}, cancel |-> FALSE, earlier |-> {FALSE}, reruns |-> FALSE,
     count |-> {"count"}, overlap |-> FALSE, slides |-> 0,
   flush |-> {"ok"}] }

RerunEnvironment ==
  [name |-> "rerun", rpc |-> {"error", "rows"}, rows |-> {<< "c1", "c2" >>},
   classify |-> {Ok(<< >>), Ok(TwoCards)},
   gap |-> {"gap"}, cancel |-> FALSE, earlier |-> {FALSE}, reruns |-> TRUE,
   count |-> {"count"}, overlap |-> FALSE, slides |-> NumSlides,
   flush |-> {"ok"}]

ScenarioEnvironment ==
  [name |-> "scenario", rpc |-> {"rows"}, rows |-> {<< "c1", "c2" >>},
   classify |-> {Ok(TwoCards)},
   gap |-> GapOutcomes, cancel |-> FALSE, earlier |-> {FALSE}, reruns |-> TRUE,
   count |-> {"count"}, overlap |-> FALSE, slides |-> 3,
   flush |-> {"ok"}]

\* What an insert statement of the flush ends with, its constraints aside.
InsertOutcomes == {"ok", "error"}

RefusingEnvironment ==
  [name |-> "refusing", rpc |-> {"rows"}, rows |-> {<< "c1" >>},
   classify |-> {Ok(<< >>), Ok(OneDirect)},
   gap |-> {"null"}, cancel |-> FALSE, earlier |-> {FALSE}, reruns |-> FALSE,
   count |-> {"count"}, overlap |-> FALSE, slides |-> NumSlides - 1,
   flush |-> InsertOutcomes]

SharedDeckEnvironment ==
  [name |-> "shared", rpc |-> {"rows"}, rows |-> {<< "c1" >>},
   classify |-> {Ok(OneDirect)},
   gap |-> {"null"}, cancel |-> FALSE, earlier |-> {FALSE}, reruns |-> FALSE,
   count |-> {"count"}, overlap |-> FALSE, slides |-> 1,
   flush |-> {"ok"}]

VARIABLES
  revision,        \* "batched" | "collect"
  env,             \* the behaviour's environment
  raw_cards,       \* card ids of the deck's raw_cards rows
  jobs,            \* processing_jobs rows of the lecture (alignment_generation)
  card_alignments, \* bag of rows [slide, concept, type, score, run]
  coverage_gaps,   \* bag of rows [slide, kind]
  card_concepts,   \* card ids that have a card_concepts row in the deck
  runs,            \* runs started so far
  queued,          \* calls of the engine made during a run, not yet at their first request
  cancels,         \* cancel requests made so far
  cancelPc,        \* position of the cancel handler
  orch,            \* position of generateAlignmentsInBackground
  batchStart,      \* i of the batch loop (first slide of the batch)
  processedCount,  \* the orchestrator's counter
  failure,         \* the error the orchestrator caught
  slide,           \* per slide: position and locals of its processor
  collected,       \* collect revision: allAlignments, allGaps, cardIdsToCheck
  stub,            \* rerun: what the collaborators answered for each slide
  firstRunRows,    \* history (rerun): card_alignments as the first run left it
  quotaRaised,     \* history: a classification call of this run raised quota exhaustion
  classified,      \* history: the slides of this run sent to the classifier
  firstError,      \* history: per slide, what its first classification call threw
  retryLog,        \* history: per slide, the delay and outcome of each retry turn
  analysis,        \* history: per slide, what analyzeGap ended with
  retrieval,       \* history: per slide, what its search for candidates ended with
  cancelRun,       \* history: the run during or after which the last cancel finished
  neighbour,       \* the flush of a run of another lecture against the same deck
  call,            \* a single call of a function of the engine: its input
  result           \* what the call returned, once it did

vars == << revision, env, raw_cards, jobs, card_alignments, coverage_gaps, card_concepts,
           runs, queued, cancels, cancelPc, orch, batchStart, processedCount, failure,
           slide, collected, stub, firstRunRows, quotaRaised, classified, firstError,
           retryLog, analysis, retrieval,
           cancelRun, neighbour, call, result >>

callVars == << call, result >>

storeVars == << raw_cards, jobs, card_alignments, coverage_gaps, card_concepts >>

\* ------------------------------------------------------------------- store
RECURSIVE Pow2(_)
Pow2(k) == IF k = 0 THEN 1 ELSE 2 * Pow2(k - 1)

\* The least number of REAL_DIGITS bits.
RealUnit == Pow2(REAL_DIGITS - 1)

\* The numerator doubled until the quotient by den has REAL_DIGITS bits.
RECURSIVE Scaled(_, _, _)
Scaled(n, den, k) ==
  IF n >= den * RealUnit THEN [n |-> n, k |-> k] ELSE Scaled(2 * n, den, k + 1)

\* Rounding toward zero instead of to the nearest.
Truncated(q) ==
  IF q.num = 0 THEN [m |-> 0, k |-> 0]
  ELSE LET s == Scaled(q.num, q.den, 0) IN [m |-> s.n \div q.den, k |-> s.k]

\* A number written to a real column: the decimal num/den of the request body
\* is stored as the nearest number m / 2^k with m of REAL_DIGITS bits, ties
\* to the even m.
ToReal(q) ==
  IF q.num = 0 THEN [m |-> 0, k |-> 0]
  ELSE LET s == Scaled(q.num, q.den, 0)
           m0 == s.n \div q.den
           rest == s.n % q.den
           up == 2 * rest > q.den \/ (2 * rest = q.den /\ m0 % 2 = 1)
           m1 == IF up THEN m0 + 1 ELSE m0
       IN IF m1 = 2 * RealUnit THEN [m |-> m1 \div 2, k |-> s.k - 1]
          ELSE [m |-> m1, k |-> s.k]

\* A card_alignments row as the table keeps it.
Stored(r) == [r EXCEPT !.score = ToReal(@)]

SeqToBag(rows) ==
  LET RECURSIVE Build(_)
      Build(i) == IF i = 0 THEN EmptyBag ELSE Build(i - 1) (+) SetToBag({rows[i]})
  IN Build(Len(rows))

PairOf(r) == << r.slide, r.concept >>

\* unique(slide_concept_id, card_concept_id) of card_alignments.
AlignmentUniqueViolation(table, rows) ==
  \/ \E i, j \in DOMAIN rows : i # j /\ PairOf(rows[i]) = PairOf(rows[j])
  \/ \E i \in DOMAIN rows : \E r \in BagToSet(table) : PairOf(r) = PairOf(rows[i])

InsertAlignmentsUnchecked(table, rows) ==
  table (+) SeqToBag([i \in DOMAIN rows |-> Stored(rows[i])])

\* insert into card_alignments: one statement, it inserts every row or none.
InsertAlignments(table, rows) ==
  IF AlignmentUniqueViolation(table, rows) THEN table
  ELSE table (+) SeqToBag([i \in DOMAIN rows |-> Stored(rows[i])])

DeleteNone(table) == table

\* delete from <table> where lecture_id = the lecture
DeleteAll(table) == EmptyBag

\* The row inserted twice, as by a request sent again.
InsertGapTwice(table, s, kind) ==
  table (+) SetToBag({[slide |-> s, kind |-> kind]}) (+) SetToBag({[slide |-> s, kind |-> kind]})

InsertGap(table, s, kind) == table (+) SetToBag({[slide |-> s, kind |-> kind]})

\* insert into coverage_gaps, many rows in one statement.
InsertGaps(table, rows) == table (+) SeqToBag(rows)

\* update processing_jobs ... where target_id = lecture and job_type = alignment_generation
UpdateJobs(table, Change(_)) == [k \in DOMAIN table |-> Change(table[k])]

SetProgress(table, p) == UpdateJobs(table, LAMBDA j : [j EXCEPT !.progress = p])

SetCompleted(table) ==
  UpdateJobs(table, LAMBDA j : [j EXCEPT !.status = "completed", !.progress = PROGRESS_DONE])

\* The update that changes no row.
SetNothing(table, msg) == table

SetFailed(table, msg) ==
  UpdateJobs(table, LAMBDA j : [j EXCEPT !.status = "failed", !.error = msg])

NewJob == [status |-> "processing", progress |-> 0, error |-> "none"]

\* select status ... .single(): data only when exactly one row matches.
SingleJob(table) == IF Len(table) = 1 THEN table[1].status ELSE "none"

\* ------------------------------------------------------------ slide locals
\* allAlignments, allGaps, cardIdsToCheck, conceptMap and cardsToCreate.
EmptyCollected == [alignments |-> << >>, gaps |-> << >>, cardIds |-> {}, conceptMap |-> {},
                   create |-> {}, count |-> "unasked",
                   insertError |-> "unasked", gapInsertError |-> "unasked"]

\* The card ids of a list of cards.
CardIds(list) == {list[i] : i \in DOMAIN list}

\* The answers of the rpc that the deck's raw cards allow.
InDeck(lists) == {r \in lists : CardIds(r) \subseteq raw_cards}

\* The whole list of candidates.
rawCandidates(found) == found

\* rawCandidates.slice(0, MAX_CARDS_PER_AI_CALL)
candidatesToAnalyze(found) ==
  SubSeq(found, 1, IF Len(found) < MAX_CARDS_PER_AI_CALL THEN Len(found)
                   ELSE MAX_CARDS_PER_AI_CALL)

\* Ignores whether the count could be read.
DeckHasCards(counted) == raw_cards # {}

\* hasCards: the count was read and is positive.
hasCards(counted) == counted = "count" /\ raw_cards # {}

\* What the search for the candidates of a slide ended with: an error, rows,
\* or no row, and then whether the deck's cards could be counted.
Searched(rpc, rows, counted) ==
  IF rpc = "error" THEN "error"
  ELSE IF rows # << >> THEN "rows"
  ELSE IF counted = "count" THEN "empty" ELSE "uncounted"

\* No answer recorded for a slide.
Unasked == [rpc |-> "unasked", rows |-> << >>, classified |-> FALSE, out |-> Ok(<< >>),
            gap |-> "unasked"]

\* The answers of the scenario, slide by slide.
Scenario ==
  [s \in Slides |->
     IF s = 1 THEN [Unasked EXCEPT !.rpc = "rows", !.rows = << "c1", "c2" >>,
                                   !.classified = TRUE, !.out = Ok(TwoCards)]
     ELSE IF s = 2 THEN [Unasked EXCEPT !.rpc = "rows"]
     ELSE IF s = 3 THEN [Unasked EXCEPT !.rpc = "rows", !.rows = << "c1", "c2" >>,
                                        !.classified = TRUE]
     ELSE Unasked]

IdleSlide == [pc |-> "idle", cands |-> {}, todo |-> << >>, aligns |-> << >>,
              direct |-> 0, retries |-> 0, pending |-> 0, gap |-> "none", cardIds |-> {}]

\* relevance_score / 100: the number whose decimal the request body carries.
Similarity(r) == [num |-> r, den |-> SCORE_SCALE]

\* The delay that grows by one second a turn.
LinearBackoff(retries) == (retries + 1) * BACKOFF_MS

\* Math.pow(2, retries) * 1000: the delay before a retry, in milliseconds.
Backoff(retries) == Pow2(retries) * BACKOFF_MS

\* A Number of the engine is a binary floating-point number of DOUBLE_DIGITS
\* significant digits. It is written here as its binary digits, the most
\* significant first, with a known number of digits after the point.

\* The place of the first 1 of digits, Len(digits) + 1 without one.
Leading(digits) ==
  LET ones == {i \in 1..Len(digits) : digits[i] = 1}
  IN IF ones = {} THEN Len(digits) + 1 ELSE CHOOSE i \in ones : \A j \in ones : i <= j

\* digits with one added at place i, the carry running to the front.
Increment(digits, i) ==
  LET zeros == {j \in 1..i : digits[j] = 0}
      stop == IF zeros = {} THEN 0 ELSE CHOOSE j \in zeros : \A k \in zeros : k <= j
  IN [j \in 1..Len(digits) |->
        IF j = stop THEN 1 ELSE IF stop < j /\ j <= i THEN 0 ELSE digits[j]]

\* The result of an operation whose exact value is digits (followed by more
\* nonzero digits when `more`): the nearest Number, ties to the even one.
Rounded(digits, more) ==
  LET last == Leading(digits) + DOUBLE_DIGITS - 1
  IN IF last >= Len(digits) THEN digits
     ELSE LET kept == SubSeq(digits, 1, last)
              half == digits[last + 1] = 1
              rest == more \/ \E i \in (last + 2)..Len(digits) : digits[i] = 1
              up == half /\ (rest \/ kept[last] = 1)
          IN (IF up THEN Increment(kept, last) ELSE kept)
               \o [i \in 1..(Len(digits) - last) |-> 0]

\* n in width binary digits.
RECURSIVE NatDigits(_, _)
NatDigits(n, width) ==
  IF width = 0 THEN << >> ELSE NatDigits(n \div 2, width - 1) \o << n % 2 >>

\* The number the digits write.
RECURSIVE DigitsNat(_)
DigitsNat(digits) ==
  IF digits = << >> THEN 0
  ELSE 2 * DigitsNat(SubSeq(digits, 1, Len(digits) - 1)) + digits[Len(digits)]

\* The first n digits after the point of num / den, for num < den: long
\* division, LIMB digits at a time.
RECURSIVE Quotient(_, _, _)
Quotient(num, den, n) ==
  IF n = 0 THEN << >>
  ELSE LET w == IF n < LIMB THEN n ELSE LIMB
           scaled == num * Pow2(w)
       IN NatDigits(scaled \div den, w) \o Quotient(scaled % den, den, n - w)

\* What the first n digits after the point leave of num / den.
RECURSIVE Rest(_, _, _)
Rest(num, den, n) ==
  IF n = 0 THEN num
  ELSE LET w == IF n < LIMB THEN n ELSE LIMB
       IN Rest((num * Pow2(w)) % den, den, n - w)

\* The zeros after the point before the first 1 of num / den, 0 < num < den.
RECURSIVE Zeros(_, _)
Zeros(num, den) == IF 2 * num >= den THEN 0 ELSE 1 + Zeros(2 * num, den)

\* count / total for 0 <= count <= total: one digit before the point.
Divided(count, total) ==
  IF count = 0 THEN << 0, 0 >>
  ELSE IF count = total THEN << 1, 0 >>
  ELSE LET n == Zeros(count, total) + DOUBLE_DIGITS + 1
       IN Rounded(<< 0 >> \o Quotient(count, total, n), Rest(count, total, n) # 0)

\* The exact product of the places 1..i of digits by factor < 2^SPAN_DIGITS,
\* carry added, LIMB digits at a time from the last: SPAN_DIGITS more digits
\* before the point.
RECURSIVE Product(_, _, _, _)
Product(digits, factor, i, carry) ==
  IF i = 0 THEN NatDigits(carry, SPAN_DIGITS)
  ELSE LET w == IF i < LIMB THEN i ELSE LIMB
           t == DigitsNat(SubSeq(digits, i - w + 1, i)) * factor + carry
       IN Product(digits, factor, i - w, t \div Pow2(w)) \o NatDigits(t % Pow2(w), w)

\* x * factor for a Number x with one digit before the point.
Times(x, factor) == Rounded(Product(x, factor, Len(x), 0), FALSE)

\* Math.floor of a Number with SPAN_DIGITS + 1 digits before the point.
Floor(x) == DigitsNat(SubSeq(x, 1, SPAN_DIGITS + 1))

\* 5 + Math.floor((processedCount / slidesConcepts.length) * 90), for every
\* lecture of up to MaxLecture slides.
ProgressTable ==
  [total \in 1..MaxLecture |->
     [count \in 0..total |->
        PROGRESS_START + Floor(Times(Divided(count, total), PROGRESS_SPAN))]]

Progress(count, total) == ProgressTable[total][count]

isQuotaError(e) == e.code \/ e.msg

\* What a classification call threw, by the error's code and status alone.
Thrown(out) ==
  IF out.ok THEN "none"
  ELSE IF out.err.code THEN "quota"
  ELSE IF out.err.s429 THEN "rate"
  ELSE "other"

isRateLimit(e) == e.s429 /\ ~isQuotaError(e)

\* retryWithBackoff around the rpc: a timeout is retried while attempts remain,
\* any other error (and the last timeout) is thrown.
RECURSIVE RetryFrom(_, _)
RetryFrom(attempts, attempt) ==
  IF attempt >= rpcMaxRetries THEN "error"
  ELSE IF attempts[attempt + 1] = "rows" THEN "rows"
  ELSE IF attempts[attempt + 1] = "timeout" /\ attempt < rpcMaxRetries - 1
         THEN RetryFrom(attempts, attempt + 1)
  ELSE "error"

retryWithBackoff(attempts) == RetryFrom(attempts, 0)

EveryMatch(matches, cands) == matches

\* for (const match of matches): a match whose card is not among the candidates
\* sent to the classifier is skipped (if (!rawCard) continue).
KnownMatches(matches, cands) == SelectSeq(matches, LAMBDA m : m.card \in cands)

AlignmentRow(s, m) ==
  [slide |-> s, concept |-> m.card, type |-> m.type, score |-> Similarity(m.score),
   run |-> runs]

PushAlignment(s, sl) ==
  [sl EXCEPT !.aligns = Append(@, AlignmentRow(s, Head(sl.todo))),
             !.direct = @ + (IF Head(sl.todo).type = "directly_aligned" THEN 1 ELSE 0),
             !.todo = Tail(@)]

\* Where the match loop of processSlideAlignment stands after a step: at the
\* next known match, at the insert of the slide's alignments, or at its end.
LoopState(sl) ==
  IF sl.todo # << >> THEN [sl EXCEPT !.pc = "resolving"]
  ELSE IF sl.aligns # << >> THEN [sl EXCEPT !.pc = "inserting"]
  ELSE [sl EXCEPT !.pc = "return"]

SkipGapAnalysis(direct) == FALSE

NeedsGapAnalysis(direct) == direct > GAP_MIN_DIRECT /\ direct < GAP_MAX_DIRECT

Finished(s) == slide[s].pc \in {"idle", "done", "threw", "settled"}

EngineIdle == orch \in {"idle", "returned"} /\ \A s \in Slides : Finished(s)

\* slidesConcepts: the slide concepts the run read for the lecture.
Lecture == 1..env.slides

\* Every slide of the lecture from i on taken as one batch.
WholeLecture(i) == {s \in Lecture : i <= s}

\* slidesConcepts.slice(i, i + PARALLEL_BATCH_SIZE).
BatchSlides(i) == {s \in Lecture : i <= s /\ s < i + PARALLEL_BATCH_SIZE}

\* -------------------------------------------------------------------- Init
\* The store before the first request: empty, or as an earlier run of the
\* lecture against the deck left it when it completed with one directly
\* aligned card per slide.
FreshStore ==
  /\ raw_cards \in IF env.name = "retrieval" THEN {{}, Cards}
                   ELSE IF env.name = "crowded" THEN {CardIds(Crowded)}
                   ELSE {Cards}
  /\ jobs = << >>
  /\ card_alignments = EmptyBag
  /\ card_concepts = {}
  /\ runs = 0

EarlierRunStore ==
  /\ runs = 1
  /\ raw_cards = Cards
  /\ jobs = << [status |-> "completed", progress |-> PROGRESS_DONE, error |-> "none"] >>
  /\ card_alignments =
       SetToBag({Stored(AlignmentRow(s, Match("c1", "directly_aligned", 90))) : s \in Slides})
  /\ card_concepts = {"c1"}

\* One call of a function of the engine, for every input it may get: a
\* relevance score to persist, a completion to read the matches from, or the
\* count of processed slides of a lecture to report the progress of.
Calls ==
  { [op |-> "persist", score |-> r, content |-> Completion("empty", << >>),
     count |-> 0, total |-> 1] : r \in 0..SCORE_SCALE }
    \cup { [op |-> "match", score |-> 0, content |-> c, count |-> 0, total |-> 1] :
             c \in Completions }
    \cup { [op |-> "progress", score |-> 0, content |-> Completion("empty", << >>),
            count |-> p[1], total |-> p[2]] :
             p \in {q \in (1..MaxLecture) \X (1..MaxLecture) : q[1] <= q[2]} }

NoCall == [op |-> "none", score |-> 0, content |-> Completion("empty", << >>),
           count |-> 0, total |-> 1]

NoResult == [done |-> FALSE]

\* The other lecture's run before its flush: cardIdsToCheck, conceptMap,
\* cardsToCreate, and the cards its stored alignments reference.
IdleNeighbour == [pc |-> "idle", cardIds |-> {}, conceptMap |-> {}, create |-> {},
                  persisted |-> {}]

Start ==
  /\ \E earlier \in env.earlier : IF earlier THEN EarlierRunStore ELSE FreshStore
  /\ coverage_gaps = EmptyBag
  /\ queued = 0
  /\ cancels = 0
  /\ cancelPc = "idle"
  /\ orch = "idle"
  /\ batchStart = 1
  /\ processedCount = 0
  /\ failure = "none"
  /\ slide = [s \in Slides |-> IdleSlide]
  /\ collected = EmptyCollected
  /\ stub = IF env.name = "scenario" THEN Scenario ELSE [s \in Slides |-> Unasked]
  /\ firstRunRows = EmptyBag
  /\ quotaRaised = FALSE
  /\ classified = {}
  /\ firstError = [s \in Slides |-> "none"]
  /\ retryLog = [s \in Slides |-> << >>]
  /\ analysis = [s \in Slides |-> "unasked"]
  /\ retrieval = [s \in Slides |-> "unasked"]
  /\ cancelRun = 0
  /\ neighbour = IdleNeighbour
  /\ result = NoResult

Init == revision = "batched" /\ env \in Environments /\ Start /\ call = NoCall

InitCollect ==
  /\ revision = "collect"
  /\ env \in Environments \cup {RerunEnvironment, ScenarioEnvironment, RefusingEnvironment,
                             SharedDeckEnvironment}
  /\ Start
  /\ call = NoCall

\* ------------------------------------------------------------------ routes
\* The start and regenerate routes: clear the lecture's rows, insert a job row
\* in status processing and call generateAlignmentsInBackground.
\* What a call of generateAlignmentsInBackground starts from.
EngineBegins ==
  /\ orch' = "clearAlignments"
  /\ batchStart' = 1
  /\ processedCount' = 0
  /\ failure' = "none"
  /\ slide' = [s \in Slides |-> IdleSlide]
  /\ quotaRaised' = FALSE
  /\ classified' = {} /\ firstError' = [s \in Slides |-> "none"]
  /\ retryLog' = [s \in Slides |-> << >>]
  /\ analysis' = [s \in Slides |-> "unasked"]
  /\ retrieval' = [s \in Slides |-> "unasked"]
  /\ collected' = EmptyCollected

Launch ==
  /\ runs < MaxRuns
  /\ cancelPc = "idle"
  /\ runs' = runs + 1
  /\ card_alignments' = DeleteAll(card_alignments)
  /\ coverage_gaps' = DeleteAll(coverage_gaps)
  /\ jobs' = Append(jobs, NewJob)
  /\ \/ /\ orch = "idle" \/ (env.reruns /\ EngineIdle)
        /\ EngineBegins
        /\ UNCHANGED queued
     \/ /\ env.overlap /\ ~EngineIdle
        /\ queued' = queued + 1
        /\ UNCHANGED << orch, batchStart, processedCount, failure, slide, quotaRaised,
                        classified, firstError, retryLog, analysis, retrieval, collected >>
  /\ UNCHANGED << revision, env, raw_cards, card_concepts, cancels, cancelPc, stub,
                  firstRunRows, cancelRun, neighbour >>
  /\ UNCHANGED callVars

PostStart == Launch

\* regenerate reads the deck from an existing alignment of the lecture.
PostRegenerate == card_alignments # EmptyBag /\ Launch

\* The cancel route: three requests, the engine may run between them.
CancelDeleteAlignments ==
  /\ env.cancel
  /\ cancels < MaxCancels
  /\ cancelPc = "idle"
  /\ runs > 0
  /\ cancelPc' = "deleteGaps"
  /\ cancels' = cancels + 1
  /\ card_alignments' = DeleteAll(card_alignments)
  /\ UNCHANGED << revision, env, raw_cards, jobs, coverage_gaps, card_concepts, runs, queued,
                  orch, batchStart, processedCount, failure, slide, collected, stub,
                  firstRunRows, quotaRaised, classified, firstError,
                  retryLog, analysis, retrieval, cancelRun, neighbour >>
  /\ UNCHANGED callVars

CancelDeleteGaps ==
  /\ cancelPc = "deleteGaps"
  /\ cancelPc' = "markFailed"
  /\ coverage_gaps' = DeleteAll(coverage_gaps)
  /\ UNCHANGED << revision, env, raw_cards, jobs, card_alignments, card_concepts, runs, queued,
                  cancels, orch, batchStart, processedCount, failure, slide, collected, stub,
                  firstRunRows, quotaRaised, classified, firstError,
                  retryLog, analysis, retrieval, cancelRun, neighbour >>
  /\ UNCHANGED callVars

CancelMarkFailed ==
  /\ cancelPc = "markFailed"
  /\ cancelPc' = "idle"
  /\ jobs' = SetFailed(jobs, "cancelled")
  /\ cancelRun' = runs
  /\ UNCHANGED << revision, env, raw_cards, card_alignments, coverage_gaps, card_concepts, runs,
                  queued, cancels, orch, batchStart, processedCount, failure, slide, collected,
                  stub, firstRunRows, quotaRaised, classified, firstError,
                  retryLog, analysis, retrieval, neighbour >>
  /\ UNCHANGED callVars

\* ------------------------------------- generateAlignmentsInBackground: entry
\* A call made while another run was under way reaches its first request.
BeginQueued ==
  /\ queued > 0
  /\ EngineIdle
  /\ queued' = queued - 1
  /\ EngineBegins
  /\ UNCHANGED << revision, env, raw_cards, jobs, card_alignments, coverage_gaps,
                  card_concepts, runs, cancels, cancelPc, stub, firstRunRows, cancelRun, neighbour >>
  /\ UNCHANGED callVars

engineVars == << revision, env, raw_cards, runs, queued, cancels, cancelPc, cancelRun,
                neighbour >>

batchedVars == << collected, stub, firstRunRows >>

ClearAlignments ==
  /\ orch = "clearAlignments"
  /\ orch' = "clearGaps"
  /\ card_alignments' = DeleteAll(card_alignments)
  /\ UNCHANGED << jobs, coverage_gaps, card_concepts, batchStart, processedCount, failure,
                  slide, quotaRaised, classified, firstError,
                  retryLog, analysis, retrieval, collected, stub,
                  firstRunRows >>
  /\ UNCHANGED engineVars
  /\ UNCHANGED callVars

ClearGaps ==
  /\ orch = "clearGaps"
  /\ orch' = "progressStart"
  /\ coverage_gaps' = DeleteAll(coverage_gaps)
  /\ UNCHANGED << jobs, card_alignments, card_concepts, batchStart, processedCount, failure,
                  slide, quotaRaised, classified, firstError,
                  retryLog, analysis, retrieval, collected, stub,
                  firstRunRows >>
  /\ UNCHANGED engineVars
  /\ UNCHANGED callVars

\* update progress 5, then read the lecture's slides and enter the batch loop;
\* without slide concepts, throw 'No slide concepts found'.
ProgressStart ==
  /\ orch = "progressStart"
  /\ revision = "batched"
  /\ jobs' = SetProgress(jobs, PROGRESS_START)
  /\ IF Lecture = {}
       THEN orch' = "fail" /\ failure' = "no_slides"
       ELSE orch' = "check" /\ UNCHANGED failure
  /\ UNCHANGED << card_alignments, coverage_gaps, card_concepts, batchStart, processedCount,
                  slide, quotaRaised, classified, firstError, retryLog, analysis, retrieval >>
  /\ UNCHANGED engineVars
  /\ UNCHANGED batchedVars
  /\ UNCHANGED callVars

\* ------------------------------------------------- batched: the batch loop
\* The poll of the job row at the head of each batch, then the batch's slide
\* processors are started together (Promise.all over batch.map).
BatchCheck ==
  /\ orch = "check"
  /\ IF SingleJob(jobs) \in Terminal
       THEN /\ orch' = "returned"
            /\ UNCHANGED slide
       ELSE /\ orch' = "batch"
            /\ slide' = [s \in Slides |->
                           IF s \in BatchSlides(batchStart)
                             THEN [IdleSlide EXCEPT !.pc = "retrieving"] ELSE slide[s]]
  /\ UNCHANGED << jobs, card_alignments, coverage_gaps, card_concepts, batchStart,
                  processedCount, failure, quotaRaised, classified, firstError,
                  retryLog, analysis, retrieval >>
  /\ UNCHANGED engineVars
  /\ UNCHANGED batchedVars
  /\ UNCHANGED callVars

\* Promise.all resolved: every slide of the batch wrote its progress.
BatchJoin ==
  /\ orch = "batch"
  /\ \A s \in BatchSlides(batchStart) : slide[s].pc = "done"
  /\ IF batchStart + PARALLEL_BATCH_SIZE <= env.slides
       THEN orch' = "check" /\ batchStart' = batchStart + PARALLEL_BATCH_SIZE
       ELSE orch' = "complete" /\ UNCHANGED batchStart
  /\ UNCHANGED << jobs, card_alignments, coverage_gaps, card_concepts, processedCount,
                  failure, slide, quotaRaised, classified, firstError,
                  retryLog, analysis, retrieval >>
  /\ UNCHANGED engineVars
  /\ UNCHANGED batchedVars
  /\ UNCHANGED callVars

MarkCompleted ==
  /\ orch = "complete"
  /\ orch' = "returned"
  /\ jobs' = SetCompleted(jobs)
  /\ firstRunRows' = IF env.reruns /\ runs = 1 THEN card_alignments ELSE firstRunRows
  /\ UNCHANGED << card_alignments, coverage_gaps, card_concepts, batchStart, processedCount,
                  failure, slide, quotaRaised, classified, firstError,
                  retryLog, analysis, retrieval, collected, stub >>
  /\ UNCHANGED engineVars
  /\ UNCHANGED callVars

\* The catch of generateAlignmentsInBackground.
MarkFailed ==
  /\ orch = "fail"
  /\ orch' = "returned"
  /\ jobs' = SetFailed(jobs, failure)
  /\ UNCHANGED << card_alignments, coverage_gaps, card_concepts, batchStart, processedCount,
                  failure, slide, quotaRaised, classified, firstError,
                  retryLog, analysis, retrieval >>
  /\ UNCHANGED engineVars
  /\ UNCHANGED batchedVars
  /\ UNCHANGED callVars

\* -------------------------------------------- batched: processSlideAlignment
\* The slide returns and is not counted.
ReturnUncounted(s, sl) ==
  /\ processedCount' = processedCount
  /\ slide' = [slide EXCEPT ![s] =
                 [IdleSlide EXCEPT !.pc = "progressWrite",
                                   !.pending = Progress(processedCount + 1, env.slides)]]

\* processSlideAlignment returned: processedCount++, the progress is computed
\* and its update is sent; the store applies it at ProgressWrite.
ReturnSlide(s, sl) ==
  /\ processedCount' = processedCount + 1
  /\ slide' = [slide EXCEPT ![s] =
                 [IdleSlide EXCEPT !.pc = "progressWrite",
                                   !.pending = Progress(processedCount + 1, env.slides)]]

Continue(s, sl) ==
  IF sl.pc = "return" THEN ReturnSlide(s, sl)
  ELSE slide' = [slide EXCEPT ![s] = sl] /\ UNCHANGED processedCount

\* The answer of a classification call that did not fail.
WithMatches(s, sl, matches) ==
  IF matches = << >>
    THEN /\ coverage_gaps' = InsertGap(coverage_gaps, s, "no_relevant")
         /\ ReturnSlide(s, sl)
    ELSE /\ UNCHANGED coverage_gaps
         /\ Continue(s, LoopState([sl EXCEPT !.todo = KnownMatches(matches, sl.cands),
                                              !.cands = {}]))

\* The rpc (with its retries) answers; with candidates, the classifier is called.
Retrieve(s) ==
  /\ revision = "batched"
  /\ slide[s].pc = "retrieving"
  /\ \E attempts \in [1..rpcMaxRetries -> env.rpc], rows \in InDeck(env.rows),
        counted \in env.count :
       /\ retrieval' = [retrieval EXCEPT ![s] =
                          Searched(retryWithBackoff(attempts), rows, counted)]
       /\ IF retryWithBackoff(attempts) = "error"
            THEN /\ coverage_gaps' = InsertGap(coverage_gaps, s, "search_failed")
                 /\ ReturnSlide(s, slide[s])
                 /\ UNCHANGED classified
          ELSE IF rows = << >>
            THEN /\ coverage_gaps' =
                      InsertGap(coverage_gaps, s,
                                IF hasCards(counted) THEN "no_candidates"
                                ELSE "no_cards_in_deck")
                 /\ ReturnSlide(s, slide[s])
                 /\ UNCHANGED classified
          ELSE /\ slide' = [slide EXCEPT ![s] =
                              [@ EXCEPT !.pc = "classifying",
                                         !.cands = CardIds(candidatesToAnalyze(rows))]]
               /\ classified' = classified \cup {s}
               /\ UNCHANGED << coverage_gaps, processedCount >>
  /\ UNCHANGED << firstError, retryLog, analysis >>
  /\ UNCHANGED << jobs, card_alignments, card_concepts, orch, batchStart, failure, quotaRaised >>
  /\ UNCHANGED engineVars
  /\ UNCHANGED batchedVars
  /\ UNCHANGED callVars

\* matchCardsToSlide answers or throws.
Classify(s) ==
  /\ revision = "batched"
  /\ slide[s].pc = "classifying"
  /\ \E out \in env.classify :
       /\ IF out.ok
            THEN /\ WithMatches(s, slide[s], out.matches)
                 /\ UNCHANGED << orch, failure, quotaRaised >>
          ELSE IF isQuotaError(out.err)
            THEN \* throw: Promise.all rejects, the orchestrator's catch runs
                 /\ slide' = [slide EXCEPT ![s] = [IdleSlide EXCEPT !.pc = "threw"]]
                 /\ orch' = IF orch = "batch" THEN "fail" ELSE orch
                 /\ failure' = IF orch = "batch" THEN "quota" ELSE failure
                 /\ quotaRaised' = (quotaRaised \/ out.err.code)
                 /\ UNCHANGED << coverage_gaps, processedCount >>
          ELSE IF isRateLimit(out.err)
            THEN /\ slide' = [slide EXCEPT ![s] = [@ EXCEPT !.pc = "retrying", !.retries = 0]]
                 /\ UNCHANGED << coverage_gaps, processedCount, orch, failure, quotaRaised >>
          ELSE /\ coverage_gaps' = InsertGap(coverage_gaps, s, "ai_failed")
               /\ ReturnSlide(s, slide[s])
               /\ UNCHANGED << orch, failure, quotaRaised >>
       /\ firstError' = [firstError EXCEPT ![s] = Thrown(out)]
       /\ UNCHANGED << retryLog, analysis, retrieval >>
  /\ UNCHANGED << jobs, card_alignments, card_concepts, batchStart, classified >>
  /\ UNCHANGED engineVars
  /\ UNCHANGED batchedVars
  /\ UNCHANGED callVars

\* One turn of the rate-limit retry loop: the delay, the call and its outcome.
Retry(s) ==
  /\ revision = "batched"
  /\ slide[s].pc = "retrying"
  /\ \E out \in env.classify :
       /\ UNCHANGED << analysis, retrieval >>
       /\ retryLog' = [retryLog EXCEPT ![s] =
                         Append(@, [delay |-> Backoff(slide[s].retries), ok |-> out.ok])]
       /\ IF out.ok
            THEN /\ WithMatches(s, slide[s], out.matches)
                 /\ UNCHANGED quotaRaised
          ELSE /\ quotaRaised' = (quotaRaised \/ out.err.code)
               /\ IF slide[s].retries + 1 >= maxRetries
                    THEN /\ coverage_gaps' = InsertGap(coverage_gaps, s, "rate_limited")
                         /\ ReturnSlide(s, slide[s])
                    ELSE /\ slide' = [slide EXCEPT ![s] = [@ EXCEPT !.retries = @ + 1]]
                         /\ UNCHANGED << coverage_gaps, processedCount >>
  /\ UNCHANGED << jobs, card_alignments, card_concepts, orch, batchStart, failure,
                  classified, firstError >>
  /\ UNCHANGED engineVars
  /\ UNCHANGED batchedVars
  /\ UNCHANGED callVars

\* select id from card_concepts for the match at hand.
Resolve(s) ==
  /\ revision = "batched"
  /\ slide[s].pc = "resolving"
  /\ IF Head(slide[s].todo).card \in card_concepts
       THEN Continue(s, LoopState(PushAlignment(s, slide[s])))
       ELSE /\ slide' = [slide EXCEPT ![s] = [@ EXCEPT !.pc = "creating"]]
            /\ UNCHANGED processedCount
  /\ UNCHANGED << jobs, card_alignments, coverage_gaps, card_concepts, orch, batchStart,
                  failure, quotaRaised, classified, firstError, retryLog, analysis, retrieval >>
  /\ UNCHANGED engineVars
  /\ UNCHANGED batchedVars
  /\ UNCHANGED callVars

\* insert into card_concepts; unique(deck_id, card_id) refuses a second row,
\* and the match is then skipped.
Create(s) ==
  /\ revision = "batched"
  /\ slide[s].pc = "creating"
  /\ IF Head(slide[s].todo).card \in card_concepts
       THEN /\ UNCHANGED card_concepts
            /\ Continue(s, LoopState([slide[s] EXCEPT !.todo = Tail(@)]))
       ELSE /\ card_concepts' = card_concepts \cup {Head(slide[s].todo).card}
            /\ Continue(s, LoopState(PushAlignment(s, slide[s])))
  /\ UNCHANGED << jobs, card_alignments, coverage_gaps, orch, batchStart, failure,
                  quotaRaised, classified, firstError, retryLog, analysis, retrieval >>
  /\ UNCHANGED engineVars
  /\ UNCHANGED batchedVars
  /\ UNCHANGED callVars

\* insert the slide's alignments; an insert error is logged only.
InsertSlideAlignments(s) ==
  /\ revision = "batched"
  /\ slide[s].pc = "inserting"
  /\ card_alignments' = InsertAlignments(card_alignments, slide[s].aligns)
  /\ IF NeedsGapAnalysis(slide[s].direct)
       THEN /\ slide' = [slide EXCEPT ![s] = [IdleSlide EXCEPT !.pc = "gapAnalysis"]]
            /\ UNCHANGED processedCount
       ELSE ReturnSlide(s, slide[s])
  /\ UNCHANGED << jobs, coverage_gaps, card_concepts, orch, batchStart, failure,
                  quotaRaised, classified, firstError, retryLog, analysis, retrieval >>
  /\ UNCHANGED engineVars
  /\ UNCHANGED batchedVars
  /\ UNCHANGED callVars

\* The catch that records a gap for the analysis that threw.
GapOnError(table, s, out) ==
  IF out \in {"gap", "error"} THEN InsertGap(table, s, "analysis") ELSE table

\* if (gap) insert into coverage_gaps; the catch of the analysis logs only.
AfterAnalysis(table, s, out) ==
  IF out = "gap" THEN InsertGap(table, s, "analysis") ELSE table

\* analyzeGap answers a gap text, null, or throws (logged only).
AnalyzeGap(s) ==
  /\ revision = "batched"
  /\ slide[s].pc = "gapAnalysis"
  /\ \E out \in env.gap :
       /\ coverage_gaps' = AfterAnalysis(coverage_gaps, s, out)
       /\ analysis' = [analysis EXCEPT ![s] = out]
       /\ UNCHANGED retrieval
  /\ ReturnSlide(s, slide[s])
  /\ UNCHANGED << jobs, card_alignments, card_concepts, orch, batchStart, failure,
                  quotaRaised, classified, firstError, retryLog >>
  /\ UNCHANGED engineVars
  /\ UNCHANGED batchedVars
  /\ UNCHANGED callVars

\* The store applies the slide's progress update.
ProgressWrite(s) ==
  /\ revision = "batched"
  /\ slide[s].pc = "progressWrite"
  /\ jobs' = SetProgress(jobs, slide[s].pending)
  /\ slide' = [slide EXCEPT ![s] = [IdleSlide EXCEPT !.pc = "done"]]
  /\ UNCHANGED << card_alignments, coverage_gaps, card_concepts, orch, batchStart,
                  processedCount, failure, quotaRaised, classified, firstError,
                  retryLog, analysis, retrieval >>
  /\ UNCHANGED engineVars
  /\ UNCHANGED batchedVars
  /\ UNCHANGED callVars

\* ------------------------------------------- collect: the slides, all at once
\* What a collaborator may answer for slide s: anything the environment
\* allows, or in a rerun what it answered for the slide before.
RpcAnswers(s) == IF stub[s].rpc = "unasked" THEN env.rpc \ {"timeout"} ELSE {stub[s].rpc}

RowAnswers(s) ==
  IF stub[s].rpc = "unasked" THEN InDeck(env.rows) ELSE {stub[s].rows}

ClassifyAnswers(s) == IF stub[s].classified THEN {stub[s].out} ELSE env.classify

GapAnswers(s) == IF stub[s].gap = "unasked" THEN env.gap ELSE {stub[s].gap}

Record(s, answers) == IF env.reruns THEN [stub EXCEPT ![s] = answers] ELSE stub

\* The value the slide's promise is fulfilled with: { gap, alignments, cardIds }.
Settled(kind, aligns, ids) ==
  [IdleSlide EXCEPT !.pc = "settled", !.gap = kind, !.aligns = aligns, !.cardIds = ids]

\* const alignments = [] filled by for (const match of matches).
Alignments(s, matches, cands) ==
  LET known == KnownMatches(matches, cands)
  IN [i \in DOMAIN known |-> AlignmentRow(s, known[i])]

DirectlyAligned(rows) == Len(SelectSeq(rows, LAMBDA r : r.type = "directly_aligned"))

collectVars == << jobs, card_alignments, coverage_gaps, card_concepts, orch, batchStart,
                  processedCount, failure, collected, firstRunRows, quotaRaised >>

\* update progress 5, read the slides and the deck's card count, then start
\* every slide (Promise.allSettled over slidesConcepts.map).
ProgressStartCollect ==
  /\ orch = "progressStart"
  /\ revision = "collect"
  /\ jobs' = SetProgress(jobs, PROGRESS_START)
  /\ IF Lecture = {}
       THEN orch' = "fail" /\ failure' = "no_slides" /\ UNCHANGED collected
       ELSE /\ orch' = "gather" /\ UNCHANGED failure
            /\ \E counted \in env.count : collected' = [collected EXCEPT !.count = counted]
  /\ slide' = [s \in Slides |-> IF s \in Lecture THEN [IdleSlide EXCEPT !.pc = "retrieving"]
                                             ELSE IdleSlide]
  /\ UNCHANGED << card_alignments, coverage_gaps, card_concepts, batchStart, processedCount,
                  stub, firstRunRows, quotaRaised, classified, firstError,
                  retryLog, analysis, retrieval >>
  /\ UNCHANGED engineVars
  /\ UNCHANGED callVars

\* The rpc answers, once; with candidates, the classifier is called.
CollectRetrieve(s) ==
  /\ revision = "collect"
  /\ slide[s].pc = "retrieving"
  /\ \E rpc \in RpcAnswers(s), rows \in RowAnswers(s) :
       /\ retrieval' = [retrieval EXCEPT ![s] = Searched(rpc, rows, collected.count)]
       /\ IF rpc = "error"
            THEN /\ slide' = [slide EXCEPT ![s] = Settled("search_failed", << >>, {})]
                 /\ stub' = Record(s, [stub[s] EXCEPT !.rpc = rpc])
                 /\ UNCHANGED classified
          ELSE IF rows = << >>
            THEN /\ slide' = [slide EXCEPT ![s] =
                                Settled(IF hasCards(collected.count) THEN "no_candidates"
                                        ELSE "no_cards_in_deck", << >>, {})]
                 /\ stub' = Record(s, [stub[s] EXCEPT !.rpc = rpc, !.rows = rows])
                 /\ UNCHANGED classified
          ELSE /\ slide' = [slide EXCEPT ![s] =
                              [@ EXCEPT !.pc = "classifying",
                                         !.cands = CardIds(candidatesToAnalyze(rows))]]
               /\ stub' = Record(s, [stub[s] EXCEPT !.rpc = rpc, !.rows = rows])
               /\ classified' = classified \cup {s}
  /\ UNCHANGED << firstError, retryLog, analysis >>
  /\ UNCHANGED collectVars
  /\ UNCHANGED engineVars
  /\ UNCHANGED callVars

\* matchCardsToSlide answers or throws; every error ends the slide with a gap.
CollectClassify(s) ==
  /\ revision = "collect"
  /\ slide[s].pc = "classifying"
  /\ \E out \in ClassifyAnswers(s) :
       /\ stub' = Record(s, [stub[s] EXCEPT !.classified = TRUE, !.out = out])
       /\ IF ~out.ok
            THEN slide' = [slide EXCEPT ![s] = Settled("ai_failed", << >>, {})]
          ELSE IF out.matches = << >>
            THEN slide' = [slide EXCEPT ![s] = Settled("no_relevant", << >>, {})]
          ELSE LET rows == Alignments(s, out.matches, slide[s].cands)
                   ids == {out.matches[i].card : i \in DOMAIN out.matches}
               IN slide' = [slide EXCEPT ![s] =
                              IF NeedsGapAnalysis(DirectlyAligned(rows))
                                THEN [Settled("none", rows, ids) EXCEPT !.pc = "gapAnalysis"]
                                ELSE Settled("none", rows, ids)]
       /\ firstError' = [firstError EXCEPT ![s] = Thrown(out)]
       /\ UNCHANGED << retryLog, analysis, retrieval >>
  /\ UNCHANGED classified
  /\ UNCHANGED collectVars
  /\ UNCHANGED engineVars
  /\ UNCHANGED callVars

\* analyzeGap answers a gap text, null, or throws (logged only).
CollectAnalyzeGap(s) ==
  /\ revision = "collect"
  /\ slide[s].pc = "gapAnalysis"
  /\ \E out \in GapAnswers(s) :
       /\ stub' = Record(s, [stub[s] EXCEPT !.gap = out])
       /\ slide' = [slide EXCEPT ![s] =
                      [@ EXCEPT !.pc = "settled",
                                !.gap = IF out = "gap" THEN "analysis" ELSE "none"]]
       /\ analysis' = [analysis EXCEPT ![s] = out]
       /\ UNCHANGED retrieval
  /\ UNCHANGED << classified, firstError, retryLog >>
  /\ UNCHANGED collectVars
  /\ UNCHANGED engineVars
  /\ UNCHANGED callVars

\* ------------------------------------------------- collect: the bulk flush
RECURSIVE AllAlignments(_)
AllAlignments(n) == IF n = 0 THEN << >> ELSE AllAlignments(n - 1) \o slide[n].aligns

RECURSIVE AllGaps(_)
AllGaps(n) ==
  IF n = 0 THEN << >>
  ELSE AllGaps(n - 1) \o (IF slide[n].gap = "none" THEN << >>
                          ELSE << [slide |-> n, kind |-> slide[n].gap] >>)

\* finalAlignments: the collected alignments whose card has a concept id.
FinalAlignments(col) == SelectSeq(col.alignments, LAMBDA a : a.concept \in col.conceptMap)

\* Where the flush goes after the concepts are resolved: empty inserts are skipped.
AfterConcepts(col) ==
  IF FinalAlignments(col) # << >> THEN "insertAlignments"
  ELSE IF col.gaps # << >> THEN "insertGaps"
  ELSE "complete"

flushVars == << slide, stub, firstRunRows, quotaRaised, classified, firstError,
retryLog, analysis, retrieval,
                batchStart,
                processedCount, failure >>

\* Promise.allSettled resolved: update progress 80, then gather the results.
ProgressCollected ==
  /\ orch = "gather"
  /\ \A s \in Lecture : slide[s].pc = "settled"
  /\ jobs' = SetProgress(jobs, PROGRESS_COLLECTED)
  /\ collected' = [EmptyCollected EXCEPT
                     !.alignments = AllAlignments(env.slides),
                     !.gaps = AllGaps(env.slides),
                     !.cardIds = UNION {slide[s].cardIds : s \in Lecture}]
  /\ orch' = "selectConcepts"
  /\ UNCHANGED << card_alignments, coverage_gaps, card_concepts >>
  /\ UNCHANGED flushVars
  /\ UNCHANGED engineVars
  /\ UNCHANGED callVars

\* select id, card_id from card_concepts where card_id in cardIdsToCheck
SelectConcepts ==
  /\ orch = "selectConcepts"
  /\ LET col == [collected EXCEPT !.conceptMap = collected.cardIds \cap card_concepts,
                                  !.create = collected.cardIds \ card_concepts]
     IN /\ collected' = col
        /\ orch' = IF col.create # {} THEN "selectRawCards" ELSE AfterConcepts(col)
  /\ UNCHANGED << jobs, card_alignments, coverage_gaps, card_concepts >>
  /\ UNCHANGED flushVars
  /\ UNCHANGED engineVars
  /\ UNCHANGED callVars

\* select card_id, tags from raw_cards where card_id in cardsToCreate
SelectRawCards ==
  /\ orch = "selectRawCards"
  /\ collected' = [collected EXCEPT !.create = @ \cap raw_cards]
  /\ orch' = "insertConcepts"
  /\ UNCHANGED << jobs, card_alignments, coverage_gaps, card_concepts >>
  /\ UNCHANGED flushVars
  /\ UNCHANGED engineVars
  /\ UNCHANGED callVars

\* insert newConcepts into card_concepts: one statement; unique(deck_id, card_id)
\* refuses it whole, and then no new concept id is known.
InsertConcepts ==
  /\ orch = "insertConcepts"
  /\ LET refused == collected.create \cap card_concepts # {}
         col == IF refused THEN collected
                ELSE [collected EXCEPT !.conceptMap = @ \cup collected.create]
     IN /\ card_concepts' = IF refused THEN card_concepts
                            ELSE card_concepts \cup collected.create
        /\ collected' = col
        /\ orch' = AfterConcepts(col)
  /\ UNCHANGED << jobs, card_alignments, coverage_gaps >>
  /\ UNCHANGED flushVars
  /\ UNCHANGED engineVars
  /\ UNCHANGED callVars

\* insert finalAlignments into card_alignments; an insert error is logged only.
InsertAllAlignments ==
  /\ orch = "insertAlignments"
  /\ \E out \in env.flush :
       LET rows == FinalAlignments(collected)
           refused == out = "error" \/ AlignmentUniqueViolation(card_alignments, rows)
       IN /\ card_alignments' =
               IF out = "error" THEN card_alignments ELSE InsertAlignments(card_alignments, rows)
          /\ collected' = [collected EXCEPT
                             !.insertError = IF refused THEN "error" ELSE "none"]
  /\ orch' = IF collected.gaps # << >> THEN "insertGaps" ELSE "complete"
  /\ UNCHANGED << jobs, coverage_gaps, card_concepts >>
  /\ UNCHANGED flushVars
  /\ UNCHANGED engineVars
  /\ UNCHANGED callVars

\* insert allGaps into coverage_gaps; an insert error is logged only.
InsertAllGaps ==
  /\ orch = "insertGaps"
  /\ \E out \in env.flush :
       /\ coverage_gaps' =
            IF out = "error" THEN coverage_gaps ELSE InsertGaps(coverage_gaps, collected.gaps)
       /\ collected' = [collected EXCEPT
                          !.gapInsertError = IF out = "error" THEN "error" ELSE "none"]
  /\ orch' = "complete"
  /\ UNCHANGED << jobs, card_alignments, card_concepts >>
  /\ UNCHANGED flushVars
  /\ UNCHANGED engineVars
  /\ UNCHANGED callVars

\* ------------------------------- collect: a run of another lecture, same deck
\* Everything but the deck's card_concepts, which the two runs share.
lectureVars == << revision, env, raw_cards, jobs, card_alignments, coverage_gaps, runs,
                 queued, cancels, cancelPc, orch, batchStart, processedCount, failure,
                 slide, collected, stub, firstRunRows, quotaRaised, classified,
                 firstError, retryLog, analysis, retrieval, cancelRun >>

\* The other run matched the card c1 and selects the concepts of its cards.
NeighbourSelectConcepts ==
  /\ env.name = "shared"
  /\ neighbour.pc = "idle"
  /\ LET ids == {"c1"}
         create == (ids \ card_concepts) \cap raw_cards
     IN neighbour' = [neighbour EXCEPT
                        !.cardIds = ids,
                        !.conceptMap = ids \cap card_concepts,
                        !.create = create,
                        !.pc = IF create # {} THEN "insertConcepts" ELSE "insertAlignments"]
  /\ UNCHANGED card_concepts
  /\ UNCHANGED lectureVars
  /\ UNCHANGED callVars

\* Its insert of newConcepts, refused whole by unique(deck_id, card_id).
NeighbourInsertConcepts ==
  /\ neighbour.pc = "insertConcepts"
  /\ LET refused == neighbour.create \cap card_concepts # {}
     IN /\ card_concepts' = IF refused THEN card_concepts
                            ELSE card_concepts \cup neighbour.create
        /\ neighbour' = [neighbour EXCEPT
                           !.conceptMap = IF refused THEN @ ELSE @ \cup neighbour.create,
                           !.pc = "insertAlignments"]
  /\ UNCHANGED lectureVars
  /\ UNCHANGED callVars

\* Its finalAlignments: the alignments whose card is in its conceptMap.
NeighbourInsertAlignments ==
  /\ neighbour.pc = "insertAlignments"
  /\ neighbour' = [neighbour EXCEPT
                     !.persisted = neighbour.cardIds \cap neighbour.conceptMap,
                     !.pc = "done"]
  /\ UNCHANGED card_concepts
  /\ UNCHANGED lectureVars
  /\ UNCHANGED callVars

\* ----------------------------------------------------------- specification
Next ==
  \/ PostStart
  \/ PostRegenerate
  \/ CancelDeleteAlignments
  \/ CancelDeleteGaps
  \/ CancelMarkFailed
  \/ BeginQueued
  \/ ClearAlignments
  \/ ClearGaps
  \/ ProgressStart
  \/ BatchCheck
  \/ BatchJoin
  \/ MarkCompleted
  \/ MarkFailed
  \/ \E s \in Slides : Retrieve(s)
  \/ \E s \in Slides : Classify(s)
  \/ \E s \in Slides : Retry(s)
  \/ \E s \in Slides : Resolve(s)
  \/ \E s \in Slides : Create(s)
  \/ \E s \in Slides : InsertSlideAlignments(s)
  \/ \E s \in Slides : AnalyzeGap(s)
  \/ \E s \in Slides : ProgressWrite(s)

Spec == Init /\ [][Next]_vars

\* The steps of generateAlignmentsInBackground and of its slide processors:
\* each is the continuation of an await, which the event loop runs once the
\* awaited call has returned or thrown.
EngineStep ==
  \/ BeginQueued
  \/ ClearAlignments
  \/ ClearGaps
  \/ ProgressStart
  \/ BatchCheck
  \/ BatchJoin
  \/ MarkCompleted
  \/ MarkFailed
  \/ \E s \in Slides : Retrieve(s)
  \/ \E s \in Slides : Classify(s)
  \/ \E s \in Slides : Retry(s)
  \/ \E s \in Slides : Resolve(s)
  \/ \E s \in Slides : Create(s)
  \/ \E s \in Slides : InsertSlideAlignments(s)
  \/ \E s \in Slides : AnalyzeGap(s)
  \/ \E s \in Slides : ProgressWrite(s)

\* The environment e when the classifier's answers carry no match.
Quiet(e) == [e EXCEPT !.classify = {Ok(<< >>)} \cup {o \in @ : ~o.ok}]

\* The environments in which a run may not end as most do: rate limits and
\* quota errors, cancel requests (both with answers that carry no match), a
\* second start, no slide to read.
FairEnvironments ==
  {e \in Environments : e.name \in {"overlap", "unread"}} \cup
  {Quiet(e) : e \in {x \in Environments : x.name \in {"cancel", "throttled"}}}

InitFair == revision = "batched" /\ env \in FairEnvironments /\ Start /\ call = NoCall

\* The batched revision with every pending continuation eventually run. A
\* run is started by a route only once the service client could be created
\* (regenerate/route.ts 107-117), so the engine's own creation succeeds.
SpecFair == InitFair /\ [][Next]_vars /\ WF_vars(EngineStep)

NextCollect ==
  \/ PostStart
  \/ PostRegenerate
  \/ CancelDeleteAlignments
  \/ CancelDeleteGaps
  \/ CancelMarkFailed
  \/ BeginQueued
  \/ ClearAlignments
  \/ ClearGaps
  \/ ProgressStartCollect
  \/ \E s \in Slides : CollectRetrieve(s)
  \/ \E s \in Slides : CollectClassify(s)
  \/ \E s \in Slides : CollectAnalyzeGap(s)
  \/ ProgressCollected
  \/ SelectConcepts
  \/ SelectRawCards
  \/ InsertConcepts
  \/ InsertAllAlignments
  \/ InsertAllGaps
  \/ MarkCompleted
  \/ MarkFailed
  \/ NeighbourSelectConcepts
  \/ NeighbourInsertConcepts
  \/ NeighbourInsertAlignments

SpecCollect == InitCollect /\ [][NextCollect]_vars

\* ------------------------------------------------- single calls of functions
onlyCall == << revision, env, raw_cards, jobs, card_alignments, coverage_gaps, card_concepts,
               runs, queued, cancels, cancelPc, orch, batchStart, processedCount, failure,
               slide, collected, stub, firstRunRows, quotaRaised, classified, firstError,
               retryLog, analysis, retrieval,
               cancelRun, neighbour, call >>

InitCalls == revision = "batched" /\ env = ScenarioEnvironment /\ Start /\ call \in Calls

\* similarity_score: match.relevance_score / 100, inserted into the real column.
PersistScore ==
  /\ call.op = "persist"
  /\ ~result.done
  /\ result' = [done |-> TRUE, value |-> ToReal(Similarity(call.score))]
  /\ UNCHANGED onlyCall

MatchCards ==
  /\ call.op = "match"
  /\ ~result.done
  /\ result' = [done |-> TRUE, value |-> matchCardsToSlide(call.content)]
  /\ UNCHANGED onlyCall

\* const progress = 5 + Math.floor((processedCount / slidesConcepts.length) * 90)
ReportProgress ==
  /\ call.op = "progress"
  /\ ~result.done
  /\ result' = [done |-> TRUE, value |-> Progress(call.count, call.total)]
  /\ UNCHANGED onlyCall

NextCalls == PersistScore \/ MatchCards \/ ReportProgress

SpecCalls == InitCalls /\ [][NextCalls]_vars

TypeOK ==
  /\ neighbour.pc \in {"idle", "insertConcepts", "insertAlignments", "done"}
  /\ orch \in {"idle", "clearAlignments", "clearGaps", "progressStart", "check", "batch",
               "complete", "fail", "returned", "gather", "selectConcepts",
               "selectRawCards", "insertConcepts", "insertAlignments", "insertGaps"}
  /\ \A s \in Slides : slide[s].pc \in {"idle", "retrieving", "classifying", "retrying",
                                        "resolving", "creating", "inserting", "gapAnalysis",
                                        "progressWrite", "done", "threw", "settled"}
  /\ processedCount \in 0..NumSlides
  /\ firstError \in [Slides -> {"none", "quota", "rate", "other"}]
  /\ analysis \in [Slides -> GapOutcomes \cup {"unasked"}]
  /\ retrieval \in [Slides -> {"unasked", "error", "rows", "empty", "uncounted"}]
  /\ \A s \in Slides : \A i \in DOMAIN retryLog[s] :
       retryLog[s][i] \in [delay : {Backoff(r) : r \in 0..(maxRetries - 1)}, ok : BOOLEAN]
  /\ queued \in 0..MaxRuns
  /\ call \in Calls \cup {NoCall}
  /\ result.done \in BOOLEAN
  /\ \A k \in DOMAIN jobs : jobs[k].progress \in 0..PROGRESS_DONE

\* ------------------------------------------------------------------ claims
\* The job row of the run under way: the row its start inserted last.
LastJob == jobs[Len(jobs)]

\* The engine returned and no slide processor is still in flight.
RunEnded == orch = "returned" /\ \A s \in Slides : Finished(s)

AlignmentsOf(s) == {r \in BagToSet(card_alignments) : r.slide = s}

\* The number of coverage_gaps rows of slide s.
GapRows(s) ==
  BagCardinality([g \in {g \in BagToSet(coverage_gaps) : g.slide = s} |-> coverage_gaps[g]])

\* C1: when a classification call of a run raised a quota-exhaustion error,
\* the run ends with its job failed and the error message naming the quota;
\* it never ends completed.
C1_QuotaFailsRun ==
  (orch = "returned" /\ quotaRaised) =>
    (LastJob.status = "failed" /\ LastJob.error = "quota")

\* C2: when a run ended with its job failed because of quota exhaustion, no
\* card_alignments row of that run is in the store.
C2_NoRowsAfterQuotaFailure ==
  (RunEnded /\ quotaRaised /\ failure = "quota" /\ LastJob.status = "failed") =>
    card_alignments = EmptyBag

\* A step that sends a classification call for some slide: the first call
\* after the candidates arrived, or a call of the rate-limit retry loop.
CallIssued ==
  \E s \in Slides :
    \/ slide[s].pc = "retrieving" /\ slide'[s].pc = "classifying"
    \/ slide[s].pc = "retrying" /\ slide'[s] # slide[s]

\* C3: once a classification call of the run has raised a quota-exhaustion
\* error, no classification call is issued for any slide.
C3_NoCallAfterQuota == [][quotaRaised => ~CallIssued]_vars

\* C4: within one run the progress stored on the job never decreases.
C4_ProgressMonotone ==
  [][(jobs # << >> /\ Len(jobs') = Len(jobs)) =>
       jobs'[Len(jobs')].progress >= LastJob.progress]_vars

\* C5: once the job of a run is completed or failed, no later step of the
\* engine changes its status; a cancelled job never becomes completed.
C5_TerminalIsFinal ==
  [][(jobs # << >> /\ Len(jobs') = Len(jobs) /\ LastJob.status \in Terminal
        /\ cancelPc' = cancelPc) =>
       jobs'[Len(jobs')].status = LastJob.status]_vars

\* C6: when the job is completed or failed at a batch boundary, the
\* orchestrator starts no slide of the next batch and returns without writing
\* the job.
C6_StopsAtTerminalJob ==
  [][(orch = "check" /\ orch' # "check" /\ LastJob.status \in Terminal) =>
       (orch' = "returned" /\ slide' = slide /\ jobs' = jobs)]_vars

\* C7: after a cancel of the run was carried out and the engine has come to
\* rest, the lecture has no card_alignments row and no coverage_gaps row.
C7_NothingAfterCancel ==
  (cancels > 0 /\ cancelPc = "idle" /\ cancelRun = runs /\ RunEnded) =>
    (card_alignments = EmptyBag /\ coverage_gaps = EmptyBag)

\* C9: after a run completed, every slide without a card_alignments row has
\* exactly one coverage_gaps row.
C9_GapForUnalignedSlide ==
  (RunEnded /\ cancels = 0 /\ LastJob.status = "completed") =>
    \A s \in Slides : AlignmentsOf(s) = {} => GapRows(s) = 1


\* A row without the marks of the run that wrote it.
Content(r) == [slide |-> r.slide, concept |-> r.concept, type |-> r.type, score |-> r.score]

\* The bag of the contents of a table's rows.
Contents(table) ==
  [c \in {Content(r) : r \in BagToSet(table)} |->
     BagCardinality([r \in {r \in BagToSet(table) : Content(r) = c} |-> table[r]])]

\* C8: a lecture run again, with the collaborators answering as they did the
\* first time, ends with the same card_alignments rows as its first run left:
\* none twice, and none left over from an earlier run.
C8_RerunLeavesSameRows ==
  (env.reruns /\ runs >= 2 /\ RunEnded) =>
    /\ Contents(card_alignments) = Contents(firstRunRows)
    /\ \A r \in BagToSet(card_alignments) : r.run = runs /\ card_alignments[r] = 1

C8_Witness ==
  /\ revision = "collect" /\ env.reruns /\ runs >= 2 /\ RunEnded
  /\ LastJob.status = "completed"
  /\ \E r1, r2 \in BagToSet(card_alignments) : r1.slide # r2.slide

\* C10: after a run, no two card_alignments rows have the same slide and the
\* same card concept.
C10_NoDuplicatePair ==
  RunEnded =>
    \A r1, r2 \in BagToSet(card_alignments) :
      PairOf(r1) = PairOf(r2) => (r1 = r2 /\ card_alignments[r1] = 1)

\* A run ended after the classifier named one card twice for a slide.
C10_Witness ==
  /\ revision = "collect" /\ RunEnded /\ LastJob.status = "completed"
  /\ \E i, j \in DOMAIN collected.alignments :
       i # j /\ PairOf(collected.alignments[i]) = PairOf(collected.alignments[j])

\* C11: when a slide processor sets out to create the concept of a matched
\* card that has none yet, the match ends as an alignment of the slide that
\* references the card's one concept, also when other slides match the card.
C11_MatchKeptWhenConceptCreated ==
  [][\A s \in Slides :
       (slide[s].pc = "creating" /\ slide'[s] # slide[s]) =>
         /\ Head(slide[s].todo).card \in card_concepts'
         /\ \E i \in DOMAIN slide'[s].aligns :
              slide'[s].aligns[i] = AlignmentRow(s, Head(slide[s].todo))]_vars

\* C12: at every moment at most one alignment job of the lecture has status
\* processing, however start and regenerate requests arrive.
C12_OneProcessingJob ==
  Cardinality({k \in DOMAIN jobs : jobs[k].status = "processing"}) <= 1

\* C13: every card_alignments row references a card concept of the deck
\* whose card is a raw card of the deck.
C13_AlignmentOfDeckCard ==
  \A r \in BagToSet(card_alignments) : r.concept \in card_concepts \cap raw_cards

\* A run ended with alignments, after the answer for some slide named only
\* a card that was not among its candidates.
C13_Witness ==
  /\ env.name = "strays" /\ RunEnded /\ LastJob.status = "completed"
  /\ card_alignments # EmptyBag
  /\ \E s \in Slides : AlignmentsOf(s) = {} /\ GapRows(s) = 0


\* C14: a job row with status completed carries progress 100, and a run that
\* ended without a fatal error left its job completed at progress 100.
C14_CompletedAtFullProgress ==
  /\ \A k \in DOMAIN jobs :
       jobs[k].status = "completed" => jobs[k].progress = PROGRESS_DONE
  /\ (RunEnded /\ failure = "none") =>
       (LastJob.status = "completed" /\ LastJob.progress = PROGRESS_DONE)

\* C15: the engine writes status failed to the job only after a classification
\* call of the run raised quota exhaustion.
C15_FailedOnlyOnQuota ==
  [][(orch = "fail" /\ orch' = "returned") => quotaRaised]_vars

\* C16: when a run ends in which classification calls threw only errors that
\* are neither rate limiting nor quota exhaustion (and no cancel or second
\* start came), each slide whose call threw has exactly one gap row, of the
\* kind 'AI matching failed', every slide of the lecture was processed and
\* the job is completed.
C16_OtherErrorBecomesGap ==
  ( /\ RunEnded /\ cancels = 0 /\ ~env.overlap
    /\ \A s \in Lecture : firstError[s] \in {"none", "other"}
    /\ \E s \in Lecture : firstError[s] = "other" )
  => /\ \A s \in Lecture :
          firstError[s] = "other" =>
            /\ GapRows(s) = 1
            /\ CopiesIn([slide |-> s, kind |-> "ai_failed"], coverage_gaps) = 1
     /\ \A s \in Lecture : slide[s].pc = "done"
     /\ LastJob.status = "completed"

\* The rows the scenario leaves, apart from the gap rows of its first slide.
ScenarioAlignments ==
  Contents(card_alignments) =
    SetToBag({ [slide |-> 1, concept |-> "c1", type |-> "directly_aligned",
                score |-> ToReal(Similarity(90))],
               [slide |-> 1, concept |-> "c2", type |-> "too_shallow",
                score |-> ToReal(Similarity(40))] })

ScenarioEnded == env.name = "scenario" /\ RunEnded

\* C17 as stated: the scenario ends with 2 alignment rows, 2 gap rows, the job
\* completed and its progress 100.
C17_ScenarioTwoGaps ==
  ScenarioEnded =>
    /\ BagCardinality(card_alignments) = 2
    /\ BagCardinality(coverage_gaps) = 2
    /\ LastJob.status = "completed" /\ LastJob.progress = PROGRESS_DONE

\* C17, amended: the scenario ends with its 2 alignment rows, one gap row for
\* the second slide and one for the third, the job completed and its progress
\* 100; the gap analysis was asked about the first slide (one directly aligned
\* card), and the first slide has a gap row exactly when it answered a gap.
C17_ScenarioGapsWithAnalysis ==
  ScenarioEnded =>
    /\ ScenarioAlignments
    /\ CopiesIn([slide |-> 2, kind |-> "no_candidates"], coverage_gaps) = 1
    /\ CopiesIn([slide |-> 3, kind |-> "no_relevant"], coverage_gaps) = 1
    /\ stub[1].gap \in GapOutcomes
    /\ GapRows(1) = (IF stub[1].gap = "gap" THEN 1 ELSE 0)
    /\ BagCardinality(coverage_gaps) = 2 + GapRows(1)
    /\ LastJob.status = "completed" /\ LastJob.progress = PROGRESS_DONE

C17_Witness == ScenarioEnded /\ stub[1].gap = "gap" /\ BagCardinality(coverage_gaps) = 3

\* The score r the call is to persist was stored.
Persisted == call.op = "persist" /\ result.done

\* 100 x the stored number m / 2^k is exactly r.
TimesScaleIs(x, r) == SCORE_SCALE * x.m = r * Pow2(x.k)

\* The stored number m / 2^k lies in [0, 1].
InUnitInterval(x) == 0 <= x.m /\ x.m <= Pow2(x.k)

\* C18 as stated: for every relevance score r in 0..100 the persisted
\* similarity_score is r/100: 100 times it is r, and it lies in [0, 1].
C18_ScoreIsHundredth ==
  Persisted => (TimesScaleIs(result.value, call.score) /\ InUnitInterval(result.value))

\* C18, amended: for every relevance score r in 0..100 the persisted
\* similarity_score is the number of the real column nearest r/100: it lies
\* in [0, 1], 100 times it rounds to r, and it is r/100 itself exactly when
\* r is a multiple of 25.
C18_ScoreNearHundredth ==
  Persisted =>
    LET x == result.value
        r == call.score
        off == SCORE_SCALE * x.m - r * Pow2(x.k)
        dist == IF off < 0 THEN -off ELSE off
    IN /\ InUnitInterval(x)
       /\ 2 * dist <= SCORE_SCALE
       /\ 2 * dist < Pow2(x.k)
       /\ (dist = 0) <=> (r % 25 = 0)

C18_Witness == Persisted /\ call.score = 85 /\ ~TimesScaleIs(result.value, call.score)

\* x < y for two stored numbers m / 2^k.
RealBelow(x, y) ==
  IF y.m = 0 THEN FALSE
  ELSE IF x.m = 0 THEN TRUE
  ELSE x.k > y.k \/ (x.k = y.k /\ x.m < y.m)

\* C19: no card_alignments row has a similarity_score below 0.30, the
\* classifier's floor of 30 over 100.
C19_NoScoreBelowFloor ==
  \A r \in BagToSet(card_alignments) :
    ~RealBelow(r.score, ToReal(Similarity(RELEVANCE_FLOOR)))

\* C20: a call of matchCardsToSlide whose completion is empty, is not JSON
\* or has no matches list fails; it does not return a result of zero matches.
C20_MalformedResponseFails ==
  (call.op = "match" /\ result.done /\ call.content.kind \in {"empty", "invalid", "no_list"})
    => ~result.value.ok

\* C21: no slide has more than one coverage_gaps row; the table is cleared
\* before a run, so the rows of a slide are those its run added.
C21_OneGapPerSlide == \A s \in Slides : GapRows(s) <= 1

\* A run ended in which one slide got its gap from the gap analysis, beside
\* its alignments, and another got the gap of a classifier without matches.
C21_Witness ==
  /\ RunEnded /\ LastJob.status = "completed"
  /\ \E s, t \in Lecture :
       /\ AlignmentsOf(s) # {}
       /\ CopiesIn([slide |-> s, kind |-> "analysis"], coverage_gaps) = 1
       /\ CopiesIn([slide |-> t, kind |-> "no_relevant"], coverage_gaps) = 1

\* C22: under fairness there comes a moment from which no job row is in
\* status processing: every run started has left its job completed or failed.
C22_RunReachesTerminal == <>[](\A k \in DOMAIN jobs : jobs[k].status \in Terminal)

\* A run ended, its job terminal, after the classification of a slide was
\* rate limited.
C22_Witness ==
  /\ RunEnded /\ LastJob.status \in Terminal
  /\ \E s \in Lecture : firstError[s] = "rate"


\* Some slide processor of the run is at work.
SlidesInProcess == orch \in {"batch", "gather"} /\ \E s \in Lecture : ~Finished(s)

\* C23: while the slides of a run are processed the store holds no
\* card_alignments row and no coverage_gaps row of the run.
C23_NoRowsWhileProcessing ==
  (runs = 1 /\ SlidesInProcess) => (card_alignments = EmptyBag /\ coverage_gaps = EmptyBag)


\* Two slide processors are both about to insert the concept of one card.
ConceptRace ==
  \E s, t \in Lecture :
    /\ s # t
    /\ slide[s].pc = "creating" /\ slide[t].pc = "creating"
    /\ Head(slide[s].todo).card = Head(slide[t].todo).card

\* C24: a card_concepts row is created only when no slide processor is at
\* work any more, and no two slide processors are ever about to create the
\* concept of one card.
C24_ConceptsCreatedCentrally ==
  [][(card_concepts' # card_concepts => ~SlidesInProcess) /\ ~ConceptRace]_vars


\* The documented schedule of the delays: 1s, 2s, 4s.
Schedule == << 1 * BACKOFF_MS, 2 * BACKOFF_MS, 4 * BACKOFF_MS >>

\* Every retry turn of slide s failed.
Exhausted(s) ==
  Len(retryLog[s]) = Len(Schedule) /\ \A i \in DOMAIN retryLog[s] : ~retryLog[s][i].ok

RateLimitGaps(s) == CopiesIn([slide |-> s, kind |-> "rate_limited"], coverage_gaps)

\* C25: a slide is retried only after a rate limit, at most three times and
\* after delays of 1s, 2s and 4s in that order; no turn follows a successful
\* one, which leaves no rate-limit gap; when every turn failed the slide has
\* exactly one gap, the rate-limit gap, and no alignment, and its processor
\* returns normally: the run, if not cancelled and if no slide's first call
\* met a quota error, ends completed.
C25_RateLimitRetries ==
  \A s \in Lecture :
    LET log == retryLog[s]
    IN /\ Len(log) <= Len(Schedule)
       /\ \A i \in DOMAIN log : log[i].delay = Schedule[i]
       /\ \A i \in DOMAIN log : log[i].ok => i = Len(log)
       /\ log # << >> => firstError[s] = "rate" /\ slide[s].pc # "threw"
       /\ (runs = 1 /\ slide[s].pc = "done" /\ firstError[s] = "rate") =>
            IF Exhausted(s)
              THEN RateLimitGaps(s) = 1 /\ GapRows(s) = 1 /\ AlignmentsOf(s) = {}
              ELSE log # << >> /\ log[Len(log)].ok /\ RateLimitGaps(s) = 0
       /\ ( /\ RunEnded /\ runs = 1 /\ cancels = 0 /\ Exhausted(s)
            /\ \A t \in Lecture : firstError[t] \in {"none", "rate"} )
            => LastJob.status = "completed"

\* A run completed in which one slide exhausted its retries and another was
\* answered at its third turn and has its alignment.
C25_Witness ==
  /\ RunEnded /\ runs = 1 /\ LastJob.status = "completed"
  /\ \E s, t \in Lecture :
       /\ Exhausted(s) /\ RateLimitGaps(s) = 1
       /\ Len(retryLog[t]) = Len(Schedule) /\ retryLog[t][Len(Schedule)].ok
       /\ AlignmentsOf(t) # {}


\* C26: the step in which a classification call of a slide, first call or
\* retry, raises quota exhaustion records no gap and hands the run to the
\* catch that fails the job (or the job is failed already).
C26_QuotaAbortsRun ==
  [][(~quotaRaised /\ quotaRaised') =>
       /\ coverage_gaps' = coverage_gaps
       /\ \/ orch' = "fail"
          \/ orch' = "returned" /\ jobs'[Len(jobs')].status = "failed"]_vars


\* C27: when the first classification call of a slide throws an error of
\* status 429 without the insufficient_quota code or type, whatever its
\* message says, the slide processor enters the retry loop.
C27_MessageQuotaIsRetried ==
  [][\A s \in Lecture :
       (firstError[s] = "none" /\ firstError'[s] = "rate") => slide'[s].pc = "retrying"]_vars


\* The alignments the processor of slide s has built when it decides about
\* the gap analysis.
Built(s) == IF revision = "collect" THEN slide'[s].aligns ELSE slide[s].aligns

\* The step in which the processor of slide s passes the test that guards
\* the gap analysis.
Decides(s) ==
  IF revision = "collect"
    THEN slide[s].pc = "classifying" /\ slide'[s].pc \in {"gapAnalysis", "settled"}
    ELSE slide[s].pc = "inserting" /\ slide'[s].pc # "inserting"

\* The step in which analyzeGap is called for slide s.
Invoked(s) == slide[s].pc # "gapAnalysis" /\ slide'[s].pc = "gapAnalysis"

\* C28: analyzeGap is called for a slide only by the step that has counted the
\* slide's directly aligned alignments, and by that step exactly when the
\* count is 1 or 2.
C28_GapAnalysisIffOneOrTwo ==
  [][\A s \in Lecture :
       /\ Invoked(s) => Decides(s)
       /\ Decides(s) => (Invoked(s) <=> DirectlyAligned(Built(s)) \in {1, 2})]_vars

\* analyzeGap is being asked about a slide whose one directly aligned
\* alignment is stored, while another slide has built three of them.
C28_Witness ==
  \E s, t \in Lecture :
    /\ slide[s].pc = "gapAnalysis"
    /\ Cardinality({r \in AlignmentsOf(s) : r.type = "directly_aligned"}) = 1
    /\ slide[t].pc = "inserting" /\ DirectlyAligned(slide[t].aligns) = 3

\* The step in which analyzeGap throws for slide s.
AnalysisThrows(s) == analysis[s] # "error" /\ analysis'[s] = "error"

\* The step in which the run writes the last status of its job.
RunEnds == orch # "returned" /\ orch' = "returned"

\* C29: the step in which the gap analysis of a slide throws leaves every
\* stored alignment in place, adds no gap, lets the slide processor return
\* normally and does not hand the run to its catch; a run in which an analysis
\* threw (and no cancel or second start came) ends completed.
C29_AnalysisErrorSwallowed ==
  [][/\ \A s \in Lecture :
          AnalysisThrows(s) =>
            /\ card_alignments' = card_alignments
            /\ coverage_gaps' = coverage_gaps
            /\ slide'[s].pc = "progressWrite"
            /\ orch' = orch /\ failure' = failure
     /\ (RunEnds /\ runs = 1 /\ cancels = 0 /\ \E s \in Lecture : analysis[s] = "error")
          => jobs'[Len(jobs')].status = "completed"]_vars

\* A run completed in which the analysis of a slide threw: the slide has its
\* alignments and no gap.
C29_Witness ==
  /\ RunEnded /\ runs = 1 /\ LastJob.status = "completed"
  /\ \E s \in Lecture :
       analysis[s] = "error" /\ AlignmentsOf(s) # {} /\ GapRows(s) = 0


GapsOfKind(s, kind) == CopiesIn([slide |-> s, kind |-> kind], coverage_gaps)

\* The processor of slide s returned, in the only run so far, after a search
\* that failed or found no candidate.
EndedWithoutCandidates(s) ==
  runs = 1 /\ slide[s].pc = "done" /\ retrieval[s] \in {"error", "empty", "uncounted"}

\* C30: a slide whose search failed or found no candidate has exactly one gap
\* and was never sent to the classifier; the gap is 'search failed' after an
\* error, 'no candidates' when the deck has cards, 'no cards in deck' when it
\* has none.
C30_GapKindTellsCase ==
  \A s \in Lecture :
    EndedWithoutCandidates(s) =>
      /\ s \notin classified
      /\ GapRows(s) = 1
      /\ GapsOfKind(s, IF retrieval[s] = "error" THEN "search_failed"
                       ELSE IF raw_cards # {} THEN "no_candidates"
                       ELSE "no_cards_in_deck") = 1

\* C30, amended: the gap is 'no candidates' only when the count of the deck's
\* cards was read and is positive; it is 'no cards in deck' when the deck is
\* empty and also when the count could not be read.
C30_GapKindTellsCountedCase ==
  \A s \in Lecture :
    EndedWithoutCandidates(s) =>
      /\ s \notin classified
      /\ GapRows(s) = 1
      /\ GapsOfKind(s, IF retrieval[s] = "error" THEN "search_failed"
                       ELSE IF retrieval[s] = "empty" /\ raw_cards # {} THEN "no_candidates"
                       ELSE "no_cards_in_deck") = 1

\* Three slides of a deck with cards ended without candidates: one after a
\* failed search, one after an empty result, one after an empty result and a
\* count that failed.
C30_Witness ==
  /\ raw_cards # {}
  /\ \E s, t, u \in Lecture :
       /\ EndedWithoutCandidates(s) /\ retrieval[s] = "error"
       /\ EndedWithoutCandidates(t) /\ retrieval[t] = "empty"
       /\ EndedWithoutCandidates(u) /\ retrieval[u] = "uncounted"
       /\ GapsOfKind(u, "no_cards_in_deck") = 1


\* The slide processors that were started and have not settled.
InFlight == {s \in Lecture : ~Finished(s)}

\* C31: at most 3 slide processors of the run are in flight.
C31_BoundedFanOut == Cardinality(InFlight) <= PARALLEL_BATCH_SIZE


\* The position of slide s's batch in the run: slices of PARALLEL_BATCH_SIZE
\* taken from the slides ordered by slide number.
BatchOf(s) == (s - 1) \div PARALLEL_BATCH_SIZE

\* The slides whose processor was started in the run.
Started == {s \in Lecture : slide[s].pc # "idle"}

\* C32: the started slides are the first slides of the lecture in slide-number
\* order, and when a slide of a later batch has started every slide of the
\* batches before it has finished.
C32_BatchesInOrder ==
  \A s \in Started :
    \A t \in Lecture :
      /\ t < s => t \in Started
      /\ BatchOf(t) < BatchOf(s) => slide[t].pc = "done"

C32_SecondBatchStarted ==
  \E s \in Started :
    /\ BatchOf(s) = 1
    /\ slide[s].pc = "retrieving"
    /\ \A t \in Lecture : BatchOf(t) = 0 => slide[t].pc = "done"


\* C33: the progress reported after the count-th slide of a lecture of total
\* slides is 5 + floor(90 * count / total), a value from 5 to 95.
C33_ProgressValue ==
  (call.op = "progress" /\ result.done) =>
    /\ result.value = PROGRESS_START + ((PROGRESS_SPAN * call.count) \div call.total)
    /\ result.value \in PROGRESS_START..(PROGRESS_START + PROGRESS_SPAN)


\* A bulk insert of the run's flush ended with an error.
BulkInsertFailed ==
  collected.insertError = "error" \/ collected.gapInsertError = "error"

\* The rows of the lecture that the run under way inserted.
RowsOfRun == {r \in BagToSet(card_alignments) : r.run = runs}

\* C34: when the run's bulk insert of alignments or of gaps failed, the run
\* (no cancel request made) ends with its job completed at progress 100; the
\* insert of the gaps was still made after a failed insert of alignments; a
\* failed insert is not made again, so none of its rows is in the store.
C34_InsertFailureIgnored ==
  (revision = "collect" /\ RunEnded /\ cancels = 0 /\ BulkInsertFailed) =>
    /\ LastJob.status = "completed" /\ LastJob.progress = PROGRESS_DONE
    /\ (collected.gaps # << >>) => collected.gapInsertError # "unasked"
    /\ collected.insertError = "error" => RowsOfRun = {}
    /\ collected.gapInsertError = "error" => coverage_gaps = EmptyBag

\* A run ended after the store refused its alignments and accepted its gaps.
C34_Witness ==
  /\ revision = "collect" /\ RunEnded /\ cancels = 0
  /\ env.name = "refusing"
  /\ collected.insertError = "error" /\ collected.gapInsertError = "none"
  /\ coverage_gaps # EmptyBag
  /\ LastJob.status = "completed"


\* The cards that the lecture's run and the other lecture's run both set out
\* to create the concept of: each had matched the card and found no concept.
CreatedByBoth == collected.create \cap neighbour.create

\* C35: when the runs of two lectures against one deck both matched a card
\* without a concept, both flushed, the card has its one concept and each run
\* stored an alignment that references it.
C35_ConcurrentRunsShareConcept ==
  (revision = "collect" /\ RunEnded /\ neighbour.pc = "done") =>
    \A c \in CreatedByBoth :
      /\ c \in card_concepts
      /\ \E r \in RowsOfRun : r.concept = c
      /\ c \in neighbour.persisted


\* C36: at a batch boundary of any run, a terminal status set on the run's
\* job from outside is what the poll of the job status reads.
C36_PollSeesTerminalStatus ==
  (revision = "batched" /\ orch = "check" /\ LastJob.status \in Terminal) =>
    SingleJob(jobs) \in Terminal


\* The engine marked the job of the run failed after a quota error.
FailedOnQuota == orch = "returned" /\ failure = "quota"

\* A step of a slide processor of the run.
ProcessorStep == \E s \in Slides : slide'[s] # slide[s] /\ runs' = runs /\ orch' = orch

\* C37: once the engine has marked the job failed after a quota error, no
\* step of a slide processor of the run changes the card_alignments rows, the
\* coverage_gaps rows or the job's progress.
C37_NoWriteAfterQuotaFailure ==
  [][(FailedOnQuota /\ ProcessorStep) =>
       /\ card_alignments' = card_alignments
       /\ coverage_gaps' = coverage_gaps
       /\ jobs' = jobs]_vars


\* The cards sent to the classifier for slide s: the MAX_CARDS_PER_AI_CALL
\* best of the candidates found for it, none when no call was made.
SentFor(s) ==
  IF retrieval[s] # "rows" THEN {}
  ELSE UNION {{r[i] : i \in {j \in DOMAIN r : j <= MAX_CARDS_PER_AI_CALL}} : r \in env.rows}

\* The run under way has deleted the rows that earlier runs of the lecture
\* left, so every row of the lecture is one that it inserted.
RowsCleared == orch \notin {"idle", "clearAlignments"}

\* C38: every card_alignments row that the run under way inserted references
\* a card that was sent to the classifier for the row's slide.
C38_AlignedCardWasSent ==
  RowsCleared => \A r \in BagToSet(card_alignments) : r.concept \in SentFor(r.slide)

\* A run of the crowded deck ended: the classifier named the first and the
\* last candidate, and only the first has an alignment.
C38_Witness ==
  /\ env.name = "crowded" /\ RunEnded /\ LastJob.status = "completed"
  /\ 1 \in classified
  /\ {r.concept : r \in RowsOfRun} = {"c1"}


\* The cards whose concept the run's flush created.
CreatedByRun == collected.create \cap collected.conceptMap

\* The cards that the alignments built in the run reference.
AlignedByRun == {collected.alignments[i].concept : i \in DOMAIN collected.alignments}

\* C39: every card whose concept the run created is referenced by an
\* alignment that the run built.
C39_ConceptOnlyForAlignedCard ==
  revision = "collect" => CreatedByRun \subseteq AlignedByRun


\* The slides of the run whose processor returned, with alignments or with
\* a gap for a recoverable failure.
Returned == {s \in Lecture : slide[s].pc \in {"progressWrite", "done"}}

\* C40: in the batched orchestrator processedCount is the number of slides
\* of the run that returned, each counted once; it never exceeds the number
\* of slides of the lecture and equals it once the last batch has finished.
C40_EverySlideCountedOnce ==
  revision = "batched" =>
    /\ processedCount = Cardinality(Returned)
    /\ processedCount <= env.slides
    /\ orch = "complete" => processedCount = env.slides

\* The last batch finished after a slide failed recoverably: it has a gap row
\* for its failed search or classification.
C40_Witness ==
  /\ revision = "batched" /\ orch = "complete"
  /\ processedCount = NumSlides
  /\ \E g \in BagToSet(coverage_gaps) : g.kind \in {"search_failed", "ai_failed"}

=============================================================================
